---- MODULE Spec2Model ----
(***************************************************************************)
(* Model of the SCD30 driver (package scd30): the CRC8 engine, the         *)
(* register table, the Device operations over an I2C transport, and the    *)
(* decoding of the 18-byte measurement frame.                              *)
(***************************************************************************)
EXTENDS Integers, Sequences, FiniteSets, TLC

VARIABLES
    pc,        \* "ready": the caller may invoke an operation; "done": one has returned
    Address,   \* Device.Address
    op,        \* the operation that returned last ("none" before the first)
    arg,       \* its argument (0 when it takes none; 1/0 for a boolean)
    bus,       \* what the transport did during it: [sendOk, recvOk, inbound]
    fault,     \* the byte of a well-formed inbound frame the bus corrupted, or NoFault
    txLog,     \* the Tx calls it made, in order: [addr, w, r] (r: length of the read buffer)
    slept,     \* the time it slept (ms)
    result,    \* its response buffer after the exchange
    err,       \* the error it returned ("nil" when none)
    ret,       \* the value it returned
    data,      \* CRC8 engine: the byte array under test, as [prefix, fill, pad]:
               \* the bytes of prefix followed by pad bytes of value fill
    lenArg,    \* CRC8 engine: the l handed to computeCRC8
    crcOut,    \* CRC8 engine: what computeCRC8 returned
    lastByte,  \* CRC8 engine: the byte appended to data in the array handed to checkCRC8
    checkErr,  \* CRC8 engine: what checkCRC8 returned
    stage      \* CRC8 engine: "input", "computed", "verified", "altered"

driverVars == <<pc, Address, op, arg, bus, fault, txLog, slept, result, err, ret>>
crcVars == <<data, lenArg, crcOut, lastByte, checkErr, stage>>
vars == <<driverVars, crcVars>>

(***************************************************************************)
(* Bounds and input samples.                                               *)
(***************************************************************************)
\* longest byte array enumerated exhaustively for the CRC8 engine
MaxLen == 2

\* byte values the inputs are drawn from: 0x00 0x01 0x31 0x80 0xBE 0xEF 0xFF
ByteSample == {0, 1, 49, 128, 190, 239, 255}

\* lengths around the width of the uint8 length of checkCRC8 / computeCRC8
LongLengths == {254, 255, 256}

\* the byte values long arrays are filled with
LongFill == {0, 255}

(***************************************************************************)
(* Fixed-width arithmetic of Go's uint8 / uint16 / uint32.                 *)
(***************************************************************************)
RECURSIVE Xor(_, _, _)
\* a ^ b on n-bit operands (bit by bit, stopping once an operand has no bits left)
Xor(a, b, n) ==
    IF n = 0 THEN 0
    ELSE IF a = 0 THEN b
    ELSE IF b = 0 THEN a
    ELSE (((a % 2) + (b % 2)) % 2) + 2 * Xor(a \div 2, b \div 2, n - 1)

RECURSIVE Or(_, _, _)
\* a | b on n-bit operands
Or(a, b, n) ==
    IF n = 0 THEN 0
    ELSE IF a = 0 THEN b
    ELSE IF b = 0 THEN a
    ELSE (IF a % 2 = 1 \/ b % 2 = 1 THEN 1 ELSE 0) + 2 * Or(a \div 2, b \div 2, n - 1)

RECURSIVE And(_, _, _)
\* a & b on n-bit operands
And(a, b, n) ==
    IF n = 0 \/ a = 0 \/ b = 0 THEN 0
    ELSE (IF a % 2 = 1 /\ b % 2 = 1 THEN 1 ELSE 0) + 2 * And(a \div 2, b \div 2, n - 1)

\* uint8(x)
uint8(x) == x % 256

\* uint16(x)
uint16(x) == x % 65536

\* x << k in a w-bit unsigned type
Shl(x, k, w) == (x * 2^k) % 2^w

(***************************************************************************)
(* CRC8 engine.  Go slices are 0-based: data[x] is data[x + 1] here.       *)
(***************************************************************************)
\* the conditional shift with the polynomial dropped (crc <<= 1 on both branches)
crcShiftNoPoly(crc) ==
    Shl(crc, 1, 8)

\* one round of the inner loop of computeCRC8
crcShift(crc) ==
    IF And(crc, 128, 8) # 0
    THEN uint8(Xor(Shl(crc, 1, 8), 49, 8))
    ELSE Shl(crc, 1, 8)

RECURSIVE crcRounds(_, _)
\* for i := 0; i < 8; i++ { ... }, entered with loop counter i
crcRounds(crc, i) ==
    IF i < 8 THEN crcRounds(crcShift(crc), i + 1) ELSE crc

\* the 8 rounds of the inner loop, for every value of the accumulator
crcRoundsOf == [c \in 0..255 |-> crcRounds(c, 0)]

RECURSIVE crcBytes(_, _, _, _)
\* for x := lo; x < hi; x++ { crc ^= data[x]; <8 rounds> }: the iterations
\* lo .. hi-1 in order, evaluated as the first half of the range followed by
\* the second half (the first half's uint8 is computed before the second
\* half starts) so that a 255-byte array is within TLC's evaluation depth
crcBytes(d, lo, hi, crc) ==
    IF lo >= hi THEN crc
    ELSE IF hi - lo = 1 THEN crcRoundsOf[Xor(crc, d[lo + 1], 8)]
    ELSE LET mid == (lo + hi) \div 2
             first == crcBytes(d, lo, mid, crc)
         IN  IF first \in 0..255 THEN crcBytes(d, mid, hi, first) ELSE first

\* computeCRC8(data, l), for l <= len(data) (the code panics otherwise)
computeCRC8(d, l) ==
    crcBytes(d, 0, l, 255)

\* checkCRC8(data): "nil", "crc" (checksum failed) or "panic" (index out of range)
checkCRC8(d) ==
    LET l == uint8(Len(d))
        last == uint8(l - 1)
    IN  IF last + 1 > Len(d) THEN "panic"
        ELSE LET expectedCRC == uint8(d[last + 1])
                 crc == computeCRC8(d, last)
             IN  IF crc # expectedCRC THEN "crc" ELSE "nil"

(***************************************************************************)
(* Register table (registers.go).                                          *)
(***************************************************************************)
I2C_ADDRESS == 97
CMD_READ_VERSION == 53504
CMD_READ_DATA_READY == 514
CMD_READ_MEASUREMENT == 768
CMD_SOFT_RESET == 54020
CMD_START_CONTINUOUS_MEASUREMENT == 16
CMD_STOP_CONTINUOUS_MEASUREMENT == 260
CMD_MEASUREMENT_INTERVAL == 17920
CMD_ALTITUDE_COMPENSATION == 20738
CMD_FORCED_RECALIBRATION_VALUE == 20996
CMD_SELF_CALIBRATION == 21254
CMD_TEMPERATURE_OFFSET == 21507
HAS_DATA_READY == 1
SELF_CALIBRATION_ENABLED == 1
SELF_CALIBRATION_DISABLED == 0
STOP_CONTINUOUS_MEASUREMENT == 1
RESET == 1

(***************************************************************************)
(* Device.  The transport (I2C.Tx) is the environment: `b` says whether    *)
(* the send and the receive succeed and which bytes the receive delivers.  *)
(***************************************************************************)
\* ClockStretching set by New, in milliseconds
DefaultClockStretching == 150

\* New(bus)
New == [Address |-> I2C_ADDRESS, ClockStretching |-> DefaultClockStretching]

\* make([]byte, n)
make(n) == [i \in 1..n |-> 0]

\* the arguments of one d.bus.Tx(addr, w, r) call; r is len(r)
Tx(addr, w, r) == [addr |-> addr, w |-> w, r |-> r]

\* readResponse that goes on to the receive after a failed send
readResponseNoReturn(command, n, b) ==
    LET send == Tx(uint16(Address), <<uint8(command \div 256), uint8(And(command, 255, 16))>>, 0)
        recv == Tx(uint16(Address), <<>>, n)
    IN  IF ~b.recvOk \/ ~b.sendOk
        THEN [err |-> IF b.sendOk THEN "read" ELSE "send", calls |-> <<send, recv>>,
              slept |-> New.ClockStretching, response |-> make(n)]
        ELSE [err |-> "nil", calls |-> <<send, recv>>,
              slept |-> New.ClockStretching, response |-> b.inbound]

\* readResponse that sends the command and the read request in one Tx call
readResponseOneCall(command, n, b) ==
    LET both == Tx(uint16(Address), <<uint8(command \div 256), uint8(And(command, 255, 16))>>, n)
    IN  IF ~b.sendOk
        THEN [err |-> "send", calls |-> <<both>>, slept |-> 0, response |-> make(n)]
        ELSE [err |-> "nil", calls |-> <<both>>, slept |-> 0, response |-> b.inbound]

\* d.readResponse(command, response), response of length n
readResponse(command, n, b) ==
    LET send == Tx(uint16(Address), <<uint8(command \div 256), uint8(And(command, 255, 16))>>, 0)
        recv == Tx(uint16(Address), <<>>, n)
    IN  IF ~b.sendOk
        THEN [err |-> "send", calls |-> <<send>>, slept |-> 0, response |-> make(n)]
        ELSE IF ~b.recvOk
        THEN [err |-> "read", calls |-> <<send, recv>>,
              slept |-> New.ClockStretching, response |-> make(n)]
        ELSE [err |-> "nil", calls |-> <<send, recv>>,
              slept |-> New.ClockStretching, response |-> b.inbound]

\* d.readAndCheckResponse(command, response), response of length n
readAndCheckResponse(command, n, b) ==
    IF n # 3
    THEN [err |-> "len", calls |-> <<>>, slept |-> 0, response |-> make(n)]
    ELSE LET r == readResponse(command, n, b)
         IN  IF r.err # "nil" THEN r
             ELSE [r EXCEPT !.err = checkCRC8(r.response)]

\* writeValue that sends the value low byte first
writeValueLittleEndian(command, value, b) ==
    LET lo == uint8(And(value, 255, 16))
        hi == uint8(value \div 256)
        send == Tx(uint16(Address),
                   <<uint8(command \div 256), uint8(And(command, 255, 16)),
                     lo, hi, uint8(computeCRC8(<<lo, hi>>, 2))>>,
                   0)
    IN  [err |-> IF b.sendOk THEN "nil" ELSE "send", calls |-> <<send>>,
         slept |-> 0, response |-> <<>>]

\* d.writeValue(command, value)
writeValue(command, value, b) ==
    LET hi == uint8(value \div 256)
        lo == uint8(And(value, 255, 16))
        send == Tx(uint16(Address),
                   <<uint8(command \div 256), uint8(And(command, 255, 16)),
                     hi, lo, uint8(computeCRC8(<<hi, lo>>, 2))>>,
                   0)
    IN  [err |-> IF b.sendOk THEN "nil" ELSE "send", calls |-> <<send>>,
         slept |-> 0, response |-> <<>>]

\* an operation that returns before any transport call
rejected == [err |-> "param", calls |-> <<>>, slept |-> 0, response |-> <<>>]

\* what an operation hands back: the exchange and the returned value
returned(out, value) == [out |-> out, value |-> value]

\* the reassembly with the two bytes exchanged
beUint16Swapped(res) == Or(Shl(uint16(res[2]), 8, 16), uint16(res[1]), 16)

\* uint16(result[0])<<8 | uint16(result[1])
beUint16(res) == Or(Shl(uint16(res[1]), 8, 16), uint16(res[2]), 16)

decDigit == <<"0", "1", "2", "3", "4", "5", "6", "7", "8", "9">>

RECURSIVE fmtD(_)
\* fmt's %d of an unsigned value
fmtD(n) ==
    IF n < 10 THEN decDigit[n + 1] ELSE fmtD(n \div 10) \o decDigit[(n % 10) + 1]

\* d.SoftReset()
SoftReset(b) ==
    returned(writeValue(CMD_SOFT_RESET, RESET, b), 0)

\* d.GetSoftwareVersion()
GetSoftwareVersion(b) ==
    LET r == readAndCheckResponse(CMD_READ_VERSION, 3, b)
    IN  IF r.err # "nil" THEN returned(r, "")
        ELSE returned(r, fmtD(r.response[1]) \o "." \o fmtD(r.response[2]))

\* d.GetMeasurementInterval()
GetMeasurementInterval(b) ==
    LET r == readAndCheckResponse(CMD_MEASUREMENT_INTERVAL, 3, b)
    IN  IF r.err # "nil" THEN returned(r, 0) ELSE returned(r, beUint16(r.response))

\* SetMeasurementInterval with the upper bound tested by >= instead of >
SetMeasurementIntervalOffByOne(interval, b) ==
    IF interval < 2 \/ interval >= 1800
    THEN returned(rejected, 0)
    ELSE returned(writeValue(CMD_MEASUREMENT_INTERVAL, interval, b), 0)

\* d.SetMeasurementInterval(interval)
SetMeasurementInterval(interval, b) ==
    IF interval < 2 \/ interval > 1800
    THEN returned(rejected, 0)
    ELSE returned(writeValue(CMD_MEASUREMENT_INTERVAL, interval, b), 0)

\* GetSelfCalibration that compares the whole big-endian uint16
GetSelfCalibrationWholeWord(b) ==
    LET r == readAndCheckResponse(CMD_SELF_CALIBRATION, 3, b)
    IN  IF r.err # "nil" THEN returned(r, FALSE)
        ELSE returned(r, beUint16(r.response) = SELF_CALIBRATION_ENABLED)

\* d.GetSelfCalibration()
GetSelfCalibration(b) ==
    LET r == readAndCheckResponse(CMD_SELF_CALIBRATION, 3, b)
    IN  IF r.err # "nil" THEN returned(r, FALSE)
        ELSE returned(r, uint16(r.response[2]) = SELF_CALIBRATION_ENABLED)

\* d.SetSelfCalibration(enabled)
SetSelfCalibration(enabled, b) ==
    IF enabled
    THEN returned(writeValue(CMD_SELF_CALIBRATION, SELF_CALIBRATION_ENABLED, b), 0)
    ELSE returned(writeValue(CMD_SELF_CALIBRATION, SELF_CALIBRATION_DISABLED, b), 0)

\* d.GetForcedRecalibrationValue()
GetForcedRecalibrationValue(b) ==
    LET r == readAndCheckResponse(CMD_FORCED_RECALIBRATION_VALUE, 3, b)
    IN  IF r.err # "nil" THEN returned(r, 0) ELSE returned(r, beUint16(r.response))

\* d.SetForcedRecalibrationValue(value)
SetForcedRecalibrationValue(value, b) ==
    IF value < 400 \/ value > 2000
    THEN returned(rejected, 0)
    ELSE returned(writeValue(CMD_FORCED_RECALIBRATION_VALUE, value, b), 0)

\* d.GetTemperatureOffset()
GetTemperatureOffset(b) ==
    LET r == readAndCheckResponse(CMD_TEMPERATURE_OFFSET, 3, b)
    IN  IF r.err # "nil" THEN returned(r, 0) ELSE returned(r, beUint16(r.response))

\* d.SetTemperatureOffset(offset)
SetTemperatureOffset(offset, b) ==
    returned(writeValue(CMD_TEMPERATURE_OFFSET, offset, b), 0)

\* d.GetAltitudeCompensation()
GetAltitudeCompensation(b) ==
    LET r == readAndCheckResponse(CMD_ALTITUDE_COMPENSATION, 3, b)
    IN  IF r.err # "nil" THEN returned(r, 0) ELSE returned(r, beUint16(r.response))

\* d.SetAltitudeCompensation(altitude)
SetAltitudeCompensation(altitude, b) ==
    returned(writeValue(CMD_ALTITUDE_COMPENSATION, altitude, b), 0)

\* d.StartContinuousMeasurement(ambientPressure)
StartContinuousMeasurement(ambientPressure, b) ==
    IF ambientPressure # 0 /\ (ambientPressure < 700 \/ ambientPressure > 1200)
    THEN returned(rejected, 0)
    ELSE returned(writeValue(CMD_START_CONTINUOUS_MEASUREMENT, ambientPressure, b), 0)

\* d.StopContinuousMeasurement()
StopContinuousMeasurement(b) ==
    returned(writeValue(CMD_STOP_CONTINUOUS_MEASUREMENT, uint16(STOP_CONTINUOUS_MEASUREMENT), b), 0)

\* d.HasDataReady()
HasDataReady(b) ==
    LET r == readAndCheckResponse(CMD_READ_DATA_READY, 3, b)
    IN  IF r.err # "nil" THEN returned(r, FALSE)
        ELSE returned(r, uint16(r.response[2]) = HAS_DATA_READY)

(***************************************************************************)
(* Measurement and its decoding.  A float32 is held as the three fields   *)
(* of its IEEE-754 bit pattern.                                            *)
(***************************************************************************)
\* a uint32, held as its two 16-bit halves (TLC's integers are 32-bit signed)
uint32(x) == [hi |-> 0, lo |-> uint16(x)]

\* value <<= 8 on a uint32
shl8(v) == [hi |-> Shl(v.hi, 8, 16) + (v.lo \div 256), lo |-> Shl(v.lo, 8, 16)]

\* value |= w on uint32
or32(v, w) == [hi |-> Or(v.hi, w.hi, 16), lo |-> Or(v.lo, w.lo, 16)]

\* math.Float32frombits(bits): sign bit 31, exponent bits 30..23, fraction bits 22..0
Float32frombits(bits) ==
    [sign |-> bits.hi \div 32768,
     exponent |-> (bits.hi \div 128) % 256,
     fraction |-> (bits.hi % 128) * 65536 + bits.lo]

\* the zero value of type Measurement
Measurement ==
    [CO2 |-> Float32frombits(uint32(0)), Temperature |-> Float32frombits(uint32(0)),
     Humidity |-> Float32frombits(uint32(0))]

RECURSIVE chunkLoopWithCRC(_, _, _, _)
\* the chunk loop folding all three bytes of a chunk into the value
chunkLoopWithCRC(res, c, i, value) ==
    IF c < 2
    THEN LET chunk == <<res[i + 1], res[i + 2], res[i + 3]>>
             e == checkCRC8(chunk)
         IN  IF e # "nil" THEN [err |-> e, i |-> i, value |-> value]
             ELSE LET v1 == or32(shl8(value), uint32(res[i + 1]))
                      v2 == or32(shl8(v1), uint32(res[i + 2]))
                      v3 == or32(shl8(v2), uint32(res[i + 3]))
                  IN  chunkLoopWithCRC(res, c + 1, i + 3, IF c = 0 THEN v3 ELSE v2)
    ELSE [err |-> "nil", i |-> i, value |-> value]

RECURSIVE chunkLoop(_, _, _, _)
\* for c := 0; c < 2; c++ { ... } of ReadMeasurement, entered with counter c,
\* offset i and accumulator value
chunkLoop(res, c, i, value) ==
    IF c < 2
    THEN LET chunk == <<res[i + 1], res[i + 2], res[i + 3]>>
             e == checkCRC8(chunk)
         IN  IF e # "nil" THEN [err |-> e, i |-> i, value |-> value]
             ELSE LET v1 == or32(shl8(value), uint32(res[i + 1]))
                      v2 == or32(shl8(v1), uint32(res[i + 2]))
                  IN  chunkLoop(res, c + 1, i + 3, v2)
    ELSE [err |-> "nil", i |-> i, value |-> value]

RECURSIVE valueLoop(_, _, _, _)
\* for v := 0; v < len(values); v++ { ... } of ReadMeasurement, entered with
\* counter v, offset i and the values decoded so far
valueLoop(res, v, i, values) ==
    IF v < Len(values)
    THEN LET inner == chunkLoop(res, 0, i, uint32(0))
         IN  IF inner.err # "nil" THEN [err |-> inner.err, values |-> values]
             ELSE valueLoop(res, v + 1, inner.i,
                            [values EXCEPT ![v + 1] = Float32frombits(inner.value)])
    ELSE [err |-> "nil", values |-> values]

\* ReadMeasurement that hands back the values decoded before a checksum error
ReadMeasurementPartial(b) ==
    LET r == readResponse(CMD_READ_MEASUREMENT, 18, b)
    IN  IF r.err # "nil" THEN returned(r, Measurement)
        ELSE LET dec == valueLoop(r.response, 0, 0, [k \in 1..3 |-> Float32frombits(uint32(0))])
             IN  returned([r EXCEPT !.err = dec.err],
                          [CO2 |-> dec.values[1], Temperature |-> dec.values[2],
                           Humidity |-> dec.values[3]])

\* d.ReadMeasurement()
ReadMeasurement(b) ==
    LET r == readResponse(CMD_READ_MEASUREMENT, 18, b)
    IN  IF r.err # "nil" THEN returned(r, Measurement)
        ELSE LET dec == valueLoop(r.response, 0, 0, [k \in 1..3 |-> Float32frombits(uint32(0))])
             IN  IF dec.err # "nil" THEN returned([r EXCEPT !.err = dec.err], Measurement)
                 ELSE returned(r, [CO2 |-> dec.values[1], Temperature |-> dec.values[2],
                                   Humidity |-> dec.values[3]])

(***************************************************************************)
(* The inputs of the driver: arguments, transport outcomes, inbound frames.*)
(***************************************************************************)
\* uint16 arguments: the bounds of every validated range, their neighbours,
\* and every pair of sample bytes as high and low byte
ArgSample ==
    {0, 1, 2, 3, 50, 255, 256, 258, 399, 400, 401, 699, 700, 701, 1199, 1200, 1201,
     1799, 1800, 1801, 1999, 2000, 2001, 48879, 65280, 65535}
        \cup {hi * 256 + lo : hi \in ByteSample, lo \in ByteSample}

\* the values Device.Address takes
AddressSample == {I2C_ADDRESS, 98}

\* the four data bytes of a quantity: 400.0, 25.0, 50.0 and the negative NaN
\* 0xFF804020 (four distinct bytes, outside every documented range)
PatternSample ==
    {<<67, 200, 0, 0>>, <<65, 200, 0, 0>>, <<66, 72, 0, 0>>, <<255, 128, 64, 32>>}

NoFault == [idx |-> 0, orig |-> 0]

\* a data word followed by its checksum, as the sensor frames it
sensorChunk(hi, lo) == <<hi, lo, computeCRC8(<<hi, lo>>, 2)>>

\* the well-formed 3-byte responses
Frames3 == {sensorChunk(hi, lo) : hi \in ByteSample, lo \in ByteSample}

\* the well-formed 18-byte measurement responses
Frames18 ==
    {sensorChunk(p[1], p[2]) \o sensorChunk(p[3], p[4])
        \o sensorChunk(q[1], q[2]) \o sensorChunk(q[3], q[4])
        \o sensorChunk(r[1], r[2]) \o sensorChunk(r[3], r[4]) :
        p \in PatternSample, q \in PatternSample, r \in PatternSample}

\* a transport that fails the send, or the receive
BusFailures ==
    {[sendOk |-> FALSE, recvOk |-> TRUE, inbound |-> <<>>],
     [sendOk |-> TRUE, recvOk |-> FALSE, inbound |-> <<>>]}

\* a transport that succeeds and delivers fr
delivers(fr) == [sendOk |-> TRUE, recvOk |-> TRUE, inbound |-> fr]

\* everything the transport can do to a write
WriteInputs ==
    {[sendOk |-> s, recvOk |-> TRUE, inbound |-> <<>>] : s \in BOOLEAN}

(***************************************************************************)
(* The CRC8 engine on its own: draw an array, compute, verify.             *)
(***************************************************************************)
RECURSIVE SeqsUpTo(_, _)
\* the sequences over S of length at most n
SeqsUpTo(S, n) ==
    IF n = 0 THEN {<<>>}
    ELSE LET shorter == SeqsUpTo(S, n - 1)
         IN  shorter \cup {Append(s, b) : s \in {t \in shorter : Len(t) = n - 1}, b \in S}

CRCInputs ==
    {[prefix |-> p, fill |-> 0, pad |-> 0] : p \in SeqsUpTo(ByteSample, MaxLen)}
        \cup {[prefix |-> <<>>, fill |-> b, pad |-> n] : n \in LongLengths, b \in LongFill}

\* the byte array an input stands for
bytes(in) == in.prefix \o [i \in 1..in.pad |-> in.fill]

\* the values a checksum byte is replaced by
Altered(c) == (ByteSample \cup {uint8(c + 1), Xor(c, 128, 8)}) \ {c}

\* the Device New returns, before any operation
DriverIdle ==
    /\ pc = "ready"
    /\ Address = New.Address
    /\ op = "none"
    /\ arg = 0
    /\ bus = [sendOk |-> TRUE, recvOk |-> TRUE, inbound |-> <<>>]
    /\ fault = NoFault
    /\ txLog = <<>>
    /\ slept = 0
    /\ result = <<>>
    /\ err = "nil"
    /\ ret = 0

InitCRC ==
    /\ DriverIdle
    /\ data \in CRCInputs
    /\ lenArg = 0
    /\ crcOut = 0
    /\ lastByte = 0
    /\ checkErr = "none"
    /\ stage = "input"

\* crc := computeCRC8(data, l) for an l within the array
Compute ==
    /\ stage = "input"
    /\ \E l \in {uint8(Len(bytes(data)))} \cup (0..MaxLen) :
        /\ l <= Len(bytes(data))
        /\ lenArg' = l
        /\ crcOut' = computeCRC8(bytes(data), l)
    /\ stage' = "computed"
    /\ UNCHANGED <<data, lastByte, checkErr>>
    /\ UNCHANGED driverVars

\* checkCRC8(append(data, computeCRC8(data, uint8(len(data)))))
Verify ==
    /\ stage = "computed"
    /\ lenArg = uint8(Len(bytes(data)))
    /\ lastByte' = crcOut
    /\ checkErr' = checkCRC8(Append(bytes(data), crcOut))
    /\ stage' = "verified"
    /\ UNCHANGED <<data, lenArg, crcOut>>
    /\ UNCHANGED driverVars

\* checkCRC8 of the same frame with its last byte replaced by another value
VerifyAltered ==
    /\ stage = "verified"
    /\ \E b \in Altered(crcOut) :
        /\ lastByte' = b
        /\ checkErr' = checkCRC8(Append(bytes(data), b))
    /\ stage' = "altered"
    /\ UNCHANGED <<data, lenArg, crcOut>>
    /\ UNCHANGED driverVars

NextCRC ==
    \/ Compute
    \/ Verify
    \/ VerifyAltered

SpecCRC == InitCRC /\ [][NextCRC]_vars

(***************************************************************************)
(* The driver in use: the caller invokes one operation at a time on the   *)
(* Device (the driver is synchronous and has no internal concurrency).     *)
(***************************************************************************)
Init ==
    /\ DriverIdle
    /\ data = [prefix |-> <<>>, fill |-> 0, pad |-> 0]
    /\ lenArg = 0
    /\ crcOut = 0
    /\ lastByte = 0
    /\ checkErr = "none"
    /\ stage = "input"

\* operation `name` runs to its return with argument a under transport
\* behaviour b and hands back r
Finish(name, a, b, flt, r) ==
    /\ pc' = "done"
    /\ op' = name
    /\ arg' = a
    /\ bus' = b
    /\ fault' = flt
    /\ txLog' = r.out.calls
    /\ slept' = r.out.slept
    /\ result' = r.out.response
    /\ err' = r.out.err
    /\ ret' = r.value
    /\ UNCHANGED Address
    /\ UNCHANGED crcVars

\* the read operation called `name`
readOp(name, b) ==
    CASE name = "GetSoftwareVersion" -> GetSoftwareVersion(b)
      [] name = "GetMeasurementInterval" -> GetMeasurementInterval(b)
      [] name = "GetSelfCalibration" -> GetSelfCalibration(b)
      [] name = "GetForcedRecalibrationValue" -> GetForcedRecalibrationValue(b)
      [] name = "GetTemperatureOffset" -> GetTemperatureOffset(b)
      [] name = "GetAltitudeCompensation" -> GetAltitudeCompensation(b)
      [] name = "HasDataReady" -> HasDataReady(b)
      [] name = "ReadMeasurement" -> ReadMeasurement(b)

\* a read operation runs under everything the transport can do to it: fail
\* the send or the receive, deliver one of the well-formed frames, or deliver
\* one with a single byte replaced
ReadCall(name, frames) ==
    /\ pc = "ready"
    /\ \/ \E b \in BusFailures : Finish(name, 0, b, NoFault, readOp(name, b))
       \/ \E fr \in frames :
              Finish(name, 0, delivers(fr), NoFault, readOp(name, delivers(fr)))
       \/ \E fr \in frames, i \in 1..18, x \in ByteSample :
              /\ i <= Len(fr)
              /\ x # fr[i]
              /\ Finish(name, 0, delivers([fr EXCEPT ![i] = x]),
                        [idx |-> i, orig |-> fr[i]],
                        readOp(name, delivers([fr EXCEPT ![i] = x])))

CallSoftReset ==
    /\ pc = "ready"
    /\ \E b \in WriteInputs : Finish("SoftReset", 0, b, NoFault, SoftReset(b))

CallGetSoftwareVersion ==
    ReadCall("GetSoftwareVersion", Frames3)

CallGetMeasurementInterval ==
    ReadCall("GetMeasurementInterval", Frames3)

CallSetMeasurementInterval ==
    /\ pc = "ready"
    /\ \E interval \in ArgSample, b \in WriteInputs :
           Finish("SetMeasurementInterval", interval, b, NoFault,
                  SetMeasurementInterval(interval, b))

CallGetSelfCalibration ==
    ReadCall("GetSelfCalibration", Frames3)

CallSetSelfCalibration ==
    /\ pc = "ready"
    /\ \E enabled \in BOOLEAN, b \in WriteInputs :
           Finish("SetSelfCalibration", IF enabled THEN 1 ELSE 0, b, NoFault,
                  SetSelfCalibration(enabled, b))

CallGetForcedRecalibrationValue ==
    ReadCall("GetForcedRecalibrationValue", Frames3)

CallSetForcedRecalibrationValue ==
    /\ pc = "ready"
    /\ \E value \in ArgSample, b \in WriteInputs :
           Finish("SetForcedRecalibrationValue", value, b, NoFault,
                  SetForcedRecalibrationValue(value, b))

CallGetTemperatureOffset ==
    ReadCall("GetTemperatureOffset", Frames3)

CallSetTemperatureOffset ==
    /\ pc = "ready"
    /\ \E offset \in ArgSample, b \in WriteInputs :
           Finish("SetTemperatureOffset", offset, b, NoFault, SetTemperatureOffset(offset, b))

CallGetAltitudeCompensation ==
    ReadCall("GetAltitudeCompensation", Frames3)

CallSetAltitudeCompensation ==
    /\ pc = "ready"
    /\ \E altitude \in ArgSample, b \in WriteInputs :
           Finish("SetAltitudeCompensation", altitude, b, NoFault,
                  SetAltitudeCompensation(altitude, b))

CallStartContinuousMeasurement ==
    /\ pc = "ready"
    /\ \E ambientPressure \in ArgSample, b \in WriteInputs :
           Finish("StartContinuousMeasurement", ambientPressure, b, NoFault,
                  StartContinuousMeasurement(ambientPressure, b))

CallStopContinuousMeasurement ==
    /\ pc = "ready"
    /\ \E b \in WriteInputs :
           Finish("StopContinuousMeasurement", 0, b, NoFault, StopContinuousMeasurement(b))

CallHasDataReady ==
    ReadCall("HasDataReady", Frames3)

CallReadMeasurement ==
    ReadCall("ReadMeasurement", Frames18)

\* the caller assigns the exported field Device.Address between two operations
SetAddress ==
    /\ pc = "ready"
    /\ \E a \in AddressSample \ {Address} : Address' = a
    /\ UNCHANGED <<pc, op, arg, bus, fault, txLog, slept, result, err, ret>>
    /\ UNCHANGED crcVars

\* the caller has taken what the operation returned and may call again
NextCall ==
    /\ pc = "done"
    /\ pc' = "ready"
    /\ op' = "none"
    /\ arg' = 0
    /\ bus' = [sendOk |-> TRUE, recvOk |-> TRUE, inbound |-> <<>>]
    /\ fault' = NoFault
    /\ txLog' = <<>>
    /\ slept' = 0
    /\ result' = <<>>
    /\ err' = "nil"
    /\ ret' = 0
    /\ UNCHANGED Address
    /\ UNCHANGED crcVars

Next ==
    \/ CallSoftReset
    \/ CallGetSoftwareVersion
    \/ CallGetMeasurementInterval
    \/ CallSetMeasurementInterval
    \/ CallGetSelfCalibration
    \/ CallSetSelfCalibration
    \/ CallGetForcedRecalibrationValue
    \/ CallSetForcedRecalibrationValue
    \/ CallGetTemperatureOffset
    \/ CallSetTemperatureOffset
    \/ CallGetAltitudeCompensation
    \/ CallSetAltitudeCompensation
    \/ CallStartContinuousMeasurement
    \/ CallStopContinuousMeasurement
    \/ CallHasDataReady
    \/ CallReadMeasurement
    \/ SetAddress
    \/ NextCall

Spec == Init /\ [][Next]_vars

(***************************************************************************)
(* Reference CRC8 of the interface description: polynomial                 *)
(* x^8 + x^5 + x^4 + 1 (0x31), initial value 0xFF, the message shifted in  *)
(* bit by bit, most significant bit first.                                 *)
(***************************************************************************)
ToggleBit(x, k) == IF (x \div 2^k) % 2 = 1 THEN x - 2^k ELSE x + 2^k

RefPoly(x) == ToggleBit(ToggleBit(ToggleBit(x, 0), 4), 5)

RefBit(crc, bit) ==
    LET feedback == ((crc \div 128) + bit) % 2
        shifted == (crc * 2) % 256
    IN  IF feedback = 1 THEN RefPoly(shifted) ELSE shifted

RECURSIVE RefByte(_, _, _)
RefByte(crc, byte, k) ==
    IF k < 0 THEN crc ELSE RefByte(RefBit(crc, (byte \div 2^k) % 2), byte, k - 1)

RECURSIVE RefRange(_, _, _, _)
RefRange(d, lo, hi, crc) ==
    IF lo >= hi THEN crc
    ELSE IF hi - lo = 1 THEN RefByte(crc, d[lo + 1], 7)
    ELSE LET mid == (lo + hi) \div 2
             first == RefRange(d, lo, mid, crc)
         IN  IF first \in 0..255 THEN RefRange(d, mid, hi, first) ELSE first

RefCRC8(d) == RefRange(d, 0, Len(d), 255)

(***************************************************************************)
(* Vocabulary of the claims.                                               *)
(***************************************************************************)
ReadOps3 ==
    {"GetSoftwareVersion", "GetMeasurementInterval", "GetSelfCalibration",
     "GetForcedRecalibrationValue", "GetTemperatureOffset", "GetAltitudeCompensation",
     "HasDataReady"}

ReadOps == ReadOps3 \cup {"ReadMeasurement"}

WriteOps ==
    {"SoftReset", "StopContinuousMeasurement", "StartContinuousMeasurement",
     "SetMeasurementInterval", "SetForcedRecalibrationValue", "SetSelfCalibration",
     "SetTemperatureOffset", "SetAltitudeCompensation"}

\* the command code table of the interface, as <<high byte, low byte>>
TableCommand(o) ==
    CASE o = "GetSoftwareVersion" -> <<209, 0>>
      [] o = "HasDataReady" -> <<2, 2>>
      [] o = "ReadMeasurement" -> <<3, 0>>
      [] o = "SoftReset" -> <<211, 4>>
      [] o = "StartContinuousMeasurement" -> <<0, 16>>
      [] o = "StopContinuousMeasurement" -> <<1, 4>>
      [] o \in {"GetMeasurementInterval", "SetMeasurementInterval"} -> <<70, 0>>
      [] o \in {"GetAltitudeCompensation", "SetAltitudeCompensation"} -> <<81, 2>>
      [] o \in {"GetForcedRecalibrationValue", "SetForcedRecalibrationValue"} -> <<82, 4>>
      [] o \in {"GetSelfCalibration", "SetSelfCalibration"} -> <<83, 6>>
      [] o \in {"GetTemperatureOffset", "SetTemperatureOffset"} -> <<84, 3>>

\* the 16-bit value a write operation is to transmit
TableValue(o, a) ==
    IF o \in {"SoftReset", "StopContinuousMeasurement"} THEN 1 ELSE a

\* the documented range of a validated argument is violated
OutOfRange(o, a) ==
    CASE o = "SetMeasurementInterval" -> a < 2 \/ a > 1800
      [] o = "SetForcedRecalibrationValue" -> a < 400 \/ a > 2000
      [] o = "StartContinuousMeasurement" -> ~(a = 0 \/ (a >= 700 /\ a <= 1200))
      [] OTHER -> FALSE

\* chunk k (0..5) of an 18-byte frame carries the reference CRC8 of its data
ChunkValid(r, k) == r[3 * k + 3] = RefCRC8(<<r[3 * k + 1], r[3 * k + 2]>>)

WellFormed18(r) == Len(r) = 18 /\ \A k \in 0..5 : ChunkValid(r, k)

\* the transport succeeded and delivered a frame
Delivered == bus.sendOk /\ bus.recvOk

\* the inbound frame is a well-formed frame with exactly one byte changed
OneByteCorrupted18 ==
    /\ Delivered
    /\ fault.idx # 0
    /\ result[fault.idx] # fault.orig
    /\ WellFormed18([result EXCEPT ![fault.idx] = fault.orig])

\* the float whose big-endian bit pattern is the bytes b1 b2 b3 b4
FloatOfBytes(b1, b2, b3, b4) ==
    [sign |-> b1 \div 128,
     exponent |-> (b1 % 128) * 2 + (b2 \div 128),
     fraction |-> (b2 % 128) * 65536 + b3 * 256 + b4]

\* the fixture frame: CO2 = 400.0, Temperature = 25.0, Humidity = 50.0
Fixture ==
    <<67, 200, 219, 0, 0, 129, 65, 200, 2, 0, 0, 129, 66, 72, 85, 0, 0, 129>>

(***************************************************************************)
(* Claims.                                                                 *)
(***************************************************************************)
\* C1: for every byte array d, checkCRC8 of d followed by
\* computeCRC8(d, len(d)) returns no error, and checkCRC8 returns an error
\* when that last byte is replaced by any other value.
C1_RoundTrip ==
    /\ stage = "verified" => checkErr = "nil"
    /\ stage = "altered" => checkErr = "crc"

\* C2: computeCRC8 is the CRC8 with polynomial 0x31, initial value 0xFF,
\* most significant bit first, and computeCRC8([0xBE, 0xEF], 2) = 0x92.
C2_ComputeIsCRC8 ==
    stage # "input" =>
        /\ crcOut = RefCRC8(SubSeq(bytes(data), 1, lenArg))
        /\ (bytes(data) = <<190, 239>> /\ lenArg = 2) => crcOut = 146

C2_Witness ==
    stage = "computed" /\ bytes(data) = <<190, 239>> /\ lenArg = 2 /\ crcOut = 146

\* C3: when one byte of a well-formed 18-byte response is changed to another
\* value, ReadMeasurement returns a checksum error and the zero Measurement:
\* no field is set from the frame, whichever chunk the byte is in.
C3_AllOrNothing ==
    (op = "ReadMeasurement" /\ OneByteCorrupted18) =>
        /\ err = "crc"
        /\ ret.CO2 = [sign |-> 0, exponent |-> 0, fraction |-> 0]
        /\ ret.Temperature = [sign |-> 0, exponent |-> 0, fraction |-> 0]
        /\ ret.Humidity = [sign |-> 0, exponent |-> 0, fraction |-> 0]

C3_Witness ==
    /\ op = "ReadMeasurement"
    /\ OneByteCorrupted18
    /\ fault.idx = 17
    /\ err = "crc"
    /\ ret = Measurement

\* C4: a range-validated operation returns a parameter error, without any Tx
\* call, exactly when its argument is outside the documented range; an
\* argument inside the range is transmitted.
C4_RangeValidation ==
    op \in WriteOps =>
        /\ err = "param" <=> OutOfRange(op, arg)
        /\ err = "param" => txLog = <<>>
        /\ err # "param" =>
            /\ Len(txLog) = 1
            /\ SubSeq(txLog[1].w, 3, 4) = <<TableValue(op, arg) \div 256, TableValue(op, arg) % 256>>
        /\ (op = "SetMeasurementInterval" /\ arg \in {1, 1801}) => err = "param"
        /\ (op = "SetMeasurementInterval" /\ arg \in {2, 1800}) => err # "param"
        /\ (op = "StartContinuousMeasurement" /\ arg \in {50, 699, 1201}) => err = "param"
        /\ (op = "StartContinuousMeasurement" /\ arg \in {0, 700, 1200}) => err # "param"

C4_Witness ==
    /\ op = "SetMeasurementInterval"
    /\ arg = 1801
    /\ err = "param"
    /\ txLog = <<>>

\* C5: an accepted write operation transmits exactly the frame
\* [cmd_hi, cmd_lo, val_hi, val_lo, crc8(val_hi, val_lo)] with its command
\* code of the table and its value big-endian.
C5_WriteFrame ==
    (op \in WriteOps /\ err # "param") =>
        LET v == TableValue(op, arg)
            hi == v \div 256
            lo == v % 256
        IN  /\ Len(txLog) = 1
            /\ txLog[1].w = TableCommand(op) \o <<hi, lo, RefCRC8(<<hi, lo>>)>>
            /\ op = "SetMeasurementInterval" => SubSeq(txLog[1].w, 1, 2) = <<70, 0>>

C5_Witness ==
    /\ op = "SetMeasurementInterval"
    /\ arg = 1800
    /\ txLog = <<[addr |-> Address, w |-> <<70, 0, 7, 8, 150>>, r |-> 0]>>

\* C6: with a transport that succeeds, a read operation makes exactly two Tx
\* calls, a send of the 2-byte big-endian command with an empty read buffer,
\* then a receive with an empty write buffer (3 bytes, 18 for
\* ReadMeasurement); a write operation makes exactly one, a send with an empty
\* read buffer; every call goes to the Device's address, 0x61 from New.
C6_TransportCalls ==
    /\ New.Address = 97
    /\ \A i \in 1..Len(txLog) : txLog[i].addr = Address
    /\ (op \in ReadOps /\ Delivered) =>
        txLog = <<[addr |-> Address, w |-> TableCommand(op), r |-> 0],
                  [addr |-> Address, w |-> <<>>,
                   r |-> IF op = "ReadMeasurement" THEN 18 ELSE 3]>>
    /\ (op \in WriteOps /\ bus.sendOk /\ ~OutOfRange(op, arg)) =>
        /\ Len(txLog) = 1
        /\ txLog[1].r = 0
        /\ Len(txLog[1].w) = 5

C6_Witness ==
    /\ op = "ReadMeasurement"
    /\ Address = 98
    /\ err = "nil"
    /\ Len(txLog) = 2
    /\ txLog[1] = [addr |-> 98, w |-> <<3, 0>>, r |-> 0]
    /\ txLog[2] = [addr |-> 98, w |-> <<>>, r |-> 18]

\* C7: a failed Tx call or a failed CRC8 check ends the operation with an
\* error and no further Tx call: after a failed send no receive is made, and
\* no operation makes more than two Tx calls.
C7_NoRetry ==
    /\ Len(txLog) <= 2
    /\ (op \in ReadOps /\ ~bus.sendOk) =>
        /\ err = "send"
        /\ Len(txLog) = 1
        /\ txLog[1].r = 0
    /\ (op \in ReadOps /\ bus.sendOk /\ ~bus.recvOk) => (err = "read" /\ Len(txLog) = 2)
    /\ (op \in ReadOps /\ Delivered /\ fault.idx # 0) => (err = "crc" /\ Len(txLog) = 2)
    /\ (op \in WriteOps /\ ~bus.sendOk /\ ~OutOfRange(op, arg)) =>
        (err = "send" /\ Len(txLog) = 1)

C7_Witness ==
    /\ op = "GetMeasurementInterval"
    /\ ~bus.sendOk
    /\ err = "send"
    /\ Len(txLog) = 1

\* C8: GetSelfCalibration returns true exactly when byte 1 of its verified
\* frame is 0x01 (false for 0x00), whatever byte 0 is; HasDataReady likewise.
C8_FlagFromByte1 ==
    (op \in {"GetSelfCalibration", "HasDataReady"}) =>
        /\ err = "nil" => (ret <=> result[2] = 1)
        /\ err # "nil" => ret = FALSE

C8_Witness ==
    /\ op = "GetSelfCalibration"
    /\ err = "nil"
    /\ result[1] = 255
    /\ result[2] = 1
    /\ ret = TRUE

\* C9: for an 18-byte response with six valid chunk CRC8s, ReadMeasurement
\* returns, in the order CO2, Temperature, Humidity, the floats whose bit
\* patterns are the big-endian uint32 of the data bytes at offsets 6g, 6g+1,
\* 6g+3, 6g+4, without scaling or range validation.
C9_Decode ==
    (op = "ReadMeasurement" /\ Delivered /\ WellFormed18(result)) =>
        /\ err = "nil"
        /\ ret.CO2 = FloatOfBytes(result[1], result[2], result[4], result[5])
        /\ ret.Temperature = FloatOfBytes(result[7], result[8], result[10], result[11])
        /\ ret.Humidity = FloatOfBytes(result[13], result[14], result[16], result[17])
        /\ result = Fixture =>
            ret = [CO2 |-> [sign |-> 0, exponent |-> 135, fraction |-> 4718592],
                   Temperature |-> [sign |-> 0, exponent |-> 131, fraction |-> 4718592],
                   Humidity |-> [sign |-> 0, exponent |-> 132, fraction |-> 4718592]]

C9_Witness ==
    /\ op = "ReadMeasurement"
    /\ err = "nil"
    /\ result[13] = 255 /\ result[14] = 128 /\ result[16] = 64 /\ result[17] = 32
    /\ ret.CO2 = [sign |-> 0, exponent |-> 135, fraction |-> 4718592]
    /\ ret.Humidity = [sign |-> 1, exponent |-> 255, fraction |-> 16416]

\* the getter that reads the setting an operation writes
MatchingGetter(o, b) ==
    CASE o = "SetMeasurementInterval" -> GetMeasurementInterval(b)
      [] o = "SetForcedRecalibrationValue" -> GetForcedRecalibrationValue(b)
      [] o = "SetTemperatureOffset" -> GetTemperatureOffset(b)
      [] o = "SetAltitudeCompensation" -> GetAltitudeCompensation(b)

NumericSetters ==
    {"SetMeasurementInterval", "SetForcedRecalibrationValue", "SetTemperatureOffset",
     "SetAltitudeCompensation"}

\* C10: the three bytes a numeric setter places after the command code,
\* handed back by the transport as the response of the matching getter, pass
\* its CRC8 check and make it return the value that was written.
C10_SetGetRoundTrip ==
    (op \in NumericSetters /\ err # "param") =>
        LET got == MatchingGetter(op, delivers(SubSeq(txLog[1].w, 3, 5)))
        IN  /\ got.out.err = "nil"
            /\ got.value = arg

C10_Witness ==
    /\ op = "SetTemperatureOffset"
    /\ arg = 48879
    /\ err = "nil"
    /\ GetTemperatureOffset(delivers(SubSeq(txLog[1].w, 3, 5))).value = 48879

====
